---- MODULE Spec2Model ----
(***************************************************************************)
(* Model of project_context.py: the file reader (get_file_content), the    *)
(* directory scanner (scan_directory), the context assembler               *)
(* (generate_context_description), the operations that use external        *)
(* commands, and scan_directory step by step on a directory graph.         *)
(*                                                                         *)
(* The program keeps no state between calls, so each specification draws   *)
(* the environment (a directory tree, a file) in Init and its actions      *)
(* apply one function of the program to it, recording the arguments and    *)
(* the returned value.                                                     *)
(*                                                                         *)
(* Python values are represented as follows:                               *)
(*   str            a TLA+ string                                          *)
(*   dict           an insertion-ordered sequence of <<key, value>> pairs, *)
(*                  except the returned scan mappings, whose key SET is    *)
(*                  the record's DOMAIN ({"files","dirs"}, {"message"},    *)
(*                  {"error"}) and whose files/dirs values are such        *)
(*                  ordered sequences                                      *)
(*   an exception leaving a function      a record with the key "raised"   *)
(***************************************************************************)
EXTENDS Integers, Sequences, FiniteSets, TLC

VARIABLES
    phase,          \* "init" before the call, then the name of the function applied
    root,           \* the directory tree handed to scan_directory (environment)
    args,           \* the arguments of the call that was made
    scan_result,    \* the value returned by scan_directory (with its call log)
    target,         \* the file handed to get_file_content (environment)
    read_result,    \* the value returned by get_file_content
    important,      \* the important_files mapping and the files it names
    description,    \* the list built by generate_context_description
    tools,          \* the state of each external command on this machine (environment)
    trace,          \* the availability checks and launches a call made, in order
    tool_result,    \* the value returned by the operation that uses external commands
    graph,          \* the directory graph walked by scan_directory (environment)
    stack,          \* the frames of the scan_directory calls in progress
    walk            \* the number of calls made and the deepest nesting reached

vars == <<phase, root, args, scan_result, target, read_result, important, description,
          tools, trace, tool_result, graph, stack, walk>>

-----------------------------------------------------------------------------
(* Bounds of the model *)

TreeDepth == 3      \* directory levels below the root in the generated trees
MaxM      == 2      \* max_depth is drawn from 0..MaxM (from -2..MaxM in the walk)
MaxKB     == 1      \* max_size_kb is drawn from 0..MaxKB

(* Program constants *)

KB == 1024          \* bytes per KB, the divisor of st_size

-----------------------------------------------------------------------------
(* Strings *)

\* 'needle in hay' for Python strings; also re.search for a pattern without
\* metacharacters (every escaped default pattern is such a literal).
Contains(hay, needle) ==
    \E i \in 1..(Len(hay) + 1) :
        /\ i + Len(needle) - 1 <= Len(hay)
        /\ SubSeq(hay, i, i + Len(needle) - 1) = needle

UpperLetters == "ABCDEFGHIJKLMNOPQRSTUVWXYZ"
LowerLetters == "abcdefghijklmnopqrstuvwxyz"

LowerChar(c) ==
    IF \E i \in 1..26 : SubSeq(UpperLetters, i, i) = c
    THEN LET i == CHOOSE j \in 1..26 : SubSeq(UpperLetters, j, j) = c
         IN  SubSeq(LowerLetters, i, i)
    ELSE c

RECURSIVE lower(_)
\* str.lower()
lower(s) ==
    IF Len(s) = 0 THEN ""
    ELSE LowerChar(SubSeq(s, 1, 1)) \o lower(SubSeq(s, 2, Len(s)))

\* str.rfind('.') as a 1-based index, 0 when there is no dot
LastDot(name) ==
    LET dots == {i \in 1..Len(name) : SubSeq(name, i, i) = "."}
    IN  IF dots = {} THEN 0 ELSE CHOOSE i \in dots : \A j \in dots : j <= i

\* Path.suffix: the last dot and what follows it, unless the dot is the
\* first or the last character of the name
suffix(name) ==
    LET i == LastDot(name)
    IN  IF 1 < i /\ i < Len(name) THEN SubSeq(name, i, Len(name)) ELSE ""

\* main(): an extension given without its dot gets one
NormalizeExtension(ext) ==
    IF Len(ext) > 0 /\ SubSeq(ext, 1, 1) = "." THEN ext ELSE "." \o ext

\* 'x in list'
InList(x, list) == \E i \in 1..Len(list) : list[i] = x

\* round(st_size / 1024, 1) in tenths of a KB (round half to even, which is
\* exact here because the divisor is a power of two)
RoundTenths(st_size) ==
    LET q == (st_size * 10) \div KB
        r == (st_size * 10) % KB
    IN  IF 2 * r > KB THEN q + 1
        ELSE IF 2 * r < KB THEN q
        ELSE IF q % 2 = 0 THEN q ELSE q + 1

-----------------------------------------------------------------------------
(* Python values *)

\* an optional argument: None, or a value
None == [none |-> TRUE]
Some(x) == [some |-> x]
IsNone(v) == "none" \in DOMAIN v

\* d[key] = value on an insertion-ordered dict
DictSet(d, key, value) ==
    IF \E i \in 1..Len(d) : d[i][1] = key
    THEN [i \in 1..Len(d) |-> IF d[i][1] = key THEN <<key, value>> ELSE d[i]]
    ELSE Append(d, <<key, value>>)

Keys(d) == {d[i][1] : i \in 1..Len(d)}

\* an exception that leaves the function
Raised(exc) == [raised |-> exc]
IsRaised(v) == "raised" \in DOMAIN v

-----------------------------------------------------------------------------
(* The directory tree (environment of scan_directory)                      *)
(*                                                                         *)
(* An entry is what Path.iterdir() yields, in iteration order:             *)
(*   kind   "file", "dir" or "other" (a socket, a device, a broken link)   *)
(*   fault  "none"                                                         *)
(*          "vanish"      a file removed between is_file() and stat(), a   *)
(*                        directory removed between is_dir() and the       *)
(*                        existence check of the recursive call            *)
(*          "unreadable"  a directory whose listing is denied: iterdir()   *)
(*                        raises PermissionError                           *)
(* The root has in addition the kinds "missing" and "noaccess": stat() of   *)
(* the root fails with EACCES (a parent directory is not searchable);      *)
(* Path.exists() re-raises that error in the pathlib of Python up to 3.12  *)
(* and answers False where it is os.path.exists (field pathlib).           *)
(***************************************************************************)

File(name, st_size, fault) ==
    [name |-> name, kind |-> "file", st_size |-> st_size, fault |-> fault, entries |-> <<>>]

Dir(name, fault, entries) ==
    [name |-> name, kind |-> "dir", st_size |-> 0, fault |-> fault, entries |-> entries]

Other(name) ==
    [name |-> name, kind |-> "other", st_size |-> 0, fault |-> "none", entries |-> <<>>]

\* listings of a directory that holds no further generated level
LeafListings ==
    { <<>>,
      <<File("in.txt", 50, "none")>>,
      <<File("deep.PY", 1024, "none"), Dir("more", "none", <<File("bottom.py", 1, "none")>>)>> }

\* listings with one subdirectory left open (the hole), between the entries
\* that iterdir() yields before it and after it
DirTemplates ==
    { [before |-> <<File("a.py", 50, "none")>>,
       hole   |-> "sub",
       after  |-> <<File("b.txt", 50, "none"),
                    Dir(".git", "none", <<File("config", 10, "none")>>)>>],
      [before |-> <<File("B.PY", 1536, "none"), Dir("locked", "unreadable", <<>>)>>,
       hole   |-> "lib",
       after  |-> <<File("Makefile", 768, "none")>>],
      [before |-> <<File("a.py", 256, "none"), Other("sock"), Dir("tmp", "vanish", <<>>)>>,
       hole   |-> "environment",
       after  |-> <<File("x.tar.gz", 2048, "none")>>],
      [before |-> <<File("m.PY", 100, "none")>>,
       hole   |-> "d.py",
       after  |-> <<File("gone.txt", 5, "vanish"), File("late.py", 7, "none")>>] }

RECURSIVE Listings(_)
\* the listings of a directory with at most d generated levels below it
Listings(d) ==
    IF d = 0 THEN LeafListings
    ELSE LeafListings \cup
         { t.before \o <<Dir(t.hole, "none", sub)>> \o t.after :
             t \in DirTemplates, sub \in Listings(d - 1) }

RootDir(path, entries) ==
    [path |-> path, kind |-> "dir", fault |-> "none", pathlib |-> "propagate",
     name |-> "", st_size |-> 0, entries |-> entries]

RootOf(path, kind, fault, pathlib) ==
    [path |-> path, kind |-> kind, fault |-> fault, pathlib |-> pathlib,
     name |-> "", st_size |-> 0, entries |-> <<>>]

Roots ==
    {RootDir("/proj", l) : l \in Listings(TreeDepth)}
    \cup {RootDir("/venv/proj", l) : l \in Listings(1)}
    \cup { RootOf("/proj/setup.py", "file", "none", "propagate"),
           RootOf("/nowhere", "missing", "none", "propagate"),
           RootOf("/proj", "dir", "unreadable", "propagate"),
           RootOf("/root/proj", "noaccess", "none", "propagate"),
           RootOf("/root/proj", "noaccess", "none", "suppress") }

-----------------------------------------------------------------------------
(* scan_directory *)

\* the default of ignore_patterns, each pattern being an escaped literal
DefaultIgnorePatterns ==
    <<".git", "__pycache__", "node_modules", ".venv", "env", "venv",
      ".cache", ".npm", ".mozilla", ".config/google-chrome">>

\* a faulty variant, re.match in place of re.search: C2 does not hold of it
IgnoredByPrefixMatch(item_path, ignore_patterns) ==
    \E i \in 1..Len(ignore_patterns) :
        /\ Len(ignore_patterns[i]) <= Len(item_path)
        /\ SubSeq(item_path, 1, Len(ignore_patterns[i])) = ignore_patterns[i]

\* any(re.search(pattern, str(item)) for pattern in ignore_patterns)
Ignored(item_path, ignore_patterns) ==
    \E i \in 1..Len(ignore_patterns) : Contains(item_path, ignore_patterns[i])

\* file_extensions and item.suffix.lower() not in file_extensions
ExtensionSkips(name, file_extensions) ==
    /\ ~IsNone(file_extensions)
    /\ Len(file_extensions.some) > 0
    /\ ~InList(lower(suffix(name)), file_extensions.some)

\* a faulty variant, <= in place of <: C1 does not hold of it
DescendOffByOne(is_dir, current_depth, max_depth) ==
    is_dir /\ current_depth <= max_depth

\* item.is_dir() and current_depth < max_depth
Descend(is_dir, current_depth, max_depth) ==
    is_dir /\ current_depth < max_depth

\* the three mappings scan_directory returns
DepthMarker(max_depth) ==
    [message |-> "Max depth " \o ToString(max_depth) \o " reached"]

NotADirectory(dir_path) ==
    [error |-> "Directory does not exist or is not accessible: " \o dir_path]

\* a faulty variant, the error added to the partial dir_info: C8 does not
\* hold of it
ScanErrorKeepingPartial(dir_info, dir_path, exc) ==
    [files |-> dir_info.files, dirs |-> dir_info.dirs,
     error |-> "Error scanning directory " \o dir_path \o ": " \o exc]

\* the except clause: the partial dir_info is dropped
ScanError(dir_info, dir_path, exc) ==
    [error |-> "Error scanning directory " \o dir_path \o ": " \o exc]

FileInfo(item, item_path) ==
    [size_kb |-> RoundTenths(item.st_size), path |-> item_path]

\* path.exists() and path.is_dir(): "true", "false" or "raise"
IsExistingDir(dir) ==
    IF dir.kind = "noaccess"
    THEN IF dir.pathlib = "propagate" THEN "raise" ELSE "false"
    ELSE IF dir.kind = "dir" /\ dir.fault # "vanish" THEN "true" ELSE "false"

RECURSIVE scan_rec(_, _, _, _, _, _)
RECURSIVE ScanItems(_, _, _, _, _, _, _, _, _)

\* the loop over path.iterdir() from its i-th entry on, inside the try block;
\* calls is the log of the scan_directory calls made so far
ScanItems(items, i, dir_info, calls, dir_path, max_depth, current_depth, ignore_patterns, file_extensions) ==
    IF i > Len(items) THEN [node |-> dir_info, calls |-> calls]
    ELSE
      LET item == items[i]
          item_path == dir_path \o "/" \o item.name
          Continue(info, log) ==
              ScanItems(items, i + 1, info, log, dir_path, max_depth, current_depth,
                        ignore_patterns, file_extensions)
      IN  IF Ignored(item_path, ignore_patterns) THEN Continue(dir_info, calls)
          ELSE IF item.kind = "file" THEN
              IF ExtensionSkips(item.name, file_extensions) THEN Continue(dir_info, calls)
              ELSE IF item.fault = "vanish"
              THEN [node  |-> ScanError(dir_info, dir_path, "No such file or directory"),
                    calls |-> calls]
              ELSE Continue([dir_info EXCEPT
                               !.files = DictSet(@, item.name, FileInfo(item, item_path))],
                            calls)
          ELSE IF Descend(item.kind = "dir", current_depth, max_depth) THEN
              LET sub == scan_rec(item, item_path, max_depth, current_depth + 1,
                                  Some(ignore_patterns), file_extensions)
              IN  IF IsRaised(sub.node)
                  THEN [node  |-> ScanError(dir_info, dir_path, sub.node.raised),
                        calls |-> calls \cup sub.calls]
                  ELSE Continue([dir_info EXCEPT
                                   !.dirs = DictSet(@, item.name, sub.node)],
                                calls \cup sub.calls)
          ELSE Continue(dir_info, calls)

\* scan_directory on the directory dir reached under dir_path, returning the
\* mapping (node) and the log of the calls made, each <<dir_path, current_depth>>
scan_rec(dir, dir_path, max_depth, current_depth, ignore_patterns, file_extensions) ==
    LET me == {<<dir_path, current_depth>>}
    IN  IF current_depth > max_depth
        THEN [node |-> DepthMarker(max_depth), calls |-> me]
        ELSE
          LET patterns == IF IsNone(ignore_patterns) THEN DefaultIgnorePatterns
                          ELSE ignore_patterns.some
              isdir == IsExistingDir(dir)
          IN  IF isdir = "raise"
              THEN [node |-> Raised("PermissionError"), calls |-> me]
              ELSE IF isdir = "false"
              THEN [node |-> NotADirectory(dir_path), calls |-> me]
              ELSE IF dir.fault = "unreadable"
              THEN [node  |-> ScanError([files |-> <<>>, dirs |-> <<>>], dir_path,
                                        "Permission denied"),
                    calls |-> me]
              ELSE ScanItems(dir.entries, 1, [files |-> <<>>, dirs |-> <<>>], me,
                             dir_path, max_depth, current_depth, patterns,
                             file_extensions)

scan_directory(dir, dir_path, max_depth, current_depth, ignore_patterns, file_extensions) ==
    scan_rec(dir, dir_path, max_depth, current_depth, ignore_patterns, file_extensions).node

-----------------------------------------------------------------------------
(* Specification of the scanner: a tree is drawn, then scanned once *)

Idle == [none |-> TRUE]

\* no operation on external commands is made in this specification
ToolsIdle == tools = Idle /\ trace = Idle /\ tool_result = Idle

\* no step-wise walk is made in this specification
WalkIdle == graph = Idle /\ stack = Idle /\ walk = Idle

\* the ignore_patterns and file_extensions arguments tried
IgnoreChoices == {None, Some(<<>>), Some(<<"sub", "txt">>)}
ExtensionArgs == {<<"py">>, <<".PY">>, <<".py", "txt">>}

\* main(): file_extensions from --extensions
MainExtensions(extensions) ==
    IF Len(extensions) = 0 THEN None
    ELSE Some([i \in 1..Len(extensions) |-> NormalizeExtension(extensions[i])])

ScanInit ==
    /\ phase = "init"
    /\ root \in Roots
    /\ args = Idle
    /\ scan_result = Idle
    /\ target = Idle
    /\ read_result = Idle
    /\ important = Idle
    /\ description = Idle
    /\ ToolsIdle
    /\ WalkIdle

\* main(): scan_directory(args.project_path, max_depth, file_extensions), with
\* current_depth and ignore_patterns left to their defaults
MainScan ==
    /\ phase = "init"
    /\ \E max_depth \in 0..MaxM, extensions \in {<<>>} \cup ExtensionArgs :
         /\ args' = [max_depth |-> max_depth, current_depth |-> 0,
                     ignore_patterns |-> None,
                     file_extensions |-> MainExtensions(extensions)]
         /\ scan_result' = scan_rec(root, root.path, max_depth, 0, None,
                                    MainExtensions(extensions))
    /\ phase' = "main_scan"
    /\ UNCHANGED <<root, target, read_result, important, description,
                   tools, trace, tool_result, graph, stack, walk>>

\* a direct call of scan_directory with its own ignore patterns
ScanCall ==
    /\ phase = "init"
    /\ \E max_depth \in 0..MaxM, ignore_patterns \in IgnoreChoices \ {None},
          file_extensions \in {None, Some(<<>>), Some(<<".py">>)} :
         /\ args' = [max_depth |-> max_depth, current_depth |-> 0,
                     ignore_patterns |-> ignore_patterns,
                     file_extensions |-> file_extensions]
         /\ scan_result' = scan_rec(root, root.path, max_depth, 0, ignore_patterns,
                                    file_extensions)
    /\ phase' = "scan_call"
    /\ UNCHANGED <<root, target, read_result, important, description,
                   tools, trace, tool_result, graph, stack, walk>>

\* a direct call of scan_directory one level past the bound
ScanPastBound ==
    /\ phase = "init"
    /\ \E max_depth \in 0..MaxM :
         /\ args' = [max_depth |-> max_depth, current_depth |-> max_depth + 1,
                     ignore_patterns |-> None, file_extensions |-> None]
         /\ scan_result' = scan_rec(root, root.path, max_depth, max_depth + 1, None, None)
    /\ phase' = "scan_past_bound"
    /\ UNCHANGED <<root, target, read_result, important, description,
                   tools, trace, tool_result, graph, stack, walk>>

ScanNext == MainScan \/ ScanCall \/ ScanPastBound

Spec == ScanInit /\ [][ScanNext]_vars

-----------------------------------------------------------------------------
(* What a tree holds and what a result shows *)

JoinPath(dir_path, name) == dir_path \o "/" \o name

RECURSIVE TreePaths(_, _, _, _)
\* every entry of the tree below dir_path: its full path, its kind, the depth
\* of the directory that holds it (the root is depth 0) and the paths of the
\* directories above it, below the root
TreePaths(entries, dir_path, depth, above) ==
    UNION { LET e == entries[i]
                p == JoinPath(dir_path, e.name)
            IN  {[path |-> p, kind |-> e.kind, depth |-> depth, above |-> above]}
                \cup (IF e.kind = "dir"
                      THEN TreePaths(e.entries, p, depth + 1, above \cup {p})
                      ELSE {})
          : i \in 1..Len(entries) }

IsValidNode(node)   == DOMAIN node = {"files", "dirs"}
IsDepthMarker(node) == DOMAIN node = {"message"}
IsErrorLeaf(node)   == DOMAIN node = {"error"}

RECURSIVE ResultPaths(_, _)
\* the full path of every key of files and of dirs, at every nesting level
ResultPaths(node, dir_path) ==
    IF ~IsValidNode(node) THEN {}
    ELSE {JoinPath(dir_path, node.files[i][1]) : i \in 1..Len(node.files)}
         \cup UNION { {JoinPath(dir_path, node.dirs[i][1])}
                      \cup ResultPaths(node.dirs[i][2], JoinPath(dir_path, node.dirs[i][1]))
                    : i \in 1..Len(node.dirs) }

RECURSIVE NestedNodes(_)
\* the returned mapping and every value nested under dirs
NestedNodes(node) ==
    {node} \cup (IF "dirs" \in DOMAIN node
                 THEN UNION {NestedNodes(node.dirs[i][2]) : i \in 1..Len(node.dirs)}
                 ELSE {})

Scanned == phase \in {"main_scan", "scan_call", "scan_past_bound"}
ScannedFromRoot == phase \in {"main_scan", "scan_call"}

\* the patterns in force during the call
PatternsInForce ==
    IF IsNone(args.ignore_patterns) THEN DefaultIgnorePatterns
    ELSE args.ignore_patterns.some

\* the path is matched by a search of one of the patterns
MatchesAPattern(path, patterns) ==
    \E i \in 1..Len(patterns) : \E j \in 1..Len(path) :
        /\ j + Len(patterns[i]) - 1 <= Len(path)
        /\ SubSeq(path, j, j + Len(patterns[i]) - 1) = patterns[i]

-----------------------------------------------------------------------------
\* C1: a scan started at current_depth 0 makes no scan_directory call with
\* current_depth > max_depth, and nothing held by a directory more than
\* max_depth levels below the root appears in the result; a call at
\* current_depth = max_depth + 1 returns exactly the 'max depth reached' marker.
C1_DepthBound ==
    /\ ScannedFromRoot =>
         /\ \A c \in scan_result.calls : c[2] <= args.max_depth
         /\ \A t \in TreePaths(root.entries, root.path, 0, {}) :
                t.depth > args.max_depth
                    => t.path \notin ResultPaths(scan_result.node, root.path)
    /\ phase = "scan_past_bound" =>
         /\ scan_result.node = [message |-> "Max depth " \o ToString(args.max_depth)
                                            \o " reached"]
         /\ scan_result.calls = {<<root.path, args.max_depth + 1>>}

\* a scan with max_depth = 0 of a readable root holding a subdirectory with a
\* file inside, which returned a valid node
C1_Witness ==
    /\ phase = "main_scan"
    /\ args.max_depth = 0
    /\ IsValidNode(scan_result.node)
    /\ \E i \in 1..Len(root.entries) :
         /\ root.entries[i].kind = "dir"
         /\ root.entries[i].name = "sub"
         /\ \E j \in 1..Len(root.entries[i].entries) :
                root.entries[i].entries[j].kind = "file"

\* C2: no key of files or dirs, at any nesting level, has a full path that a
\* search of one of the ignore patterns matches, and nothing beneath an
\* ignored directory appears.
C2_IgnoredNeverAppear ==
    Scanned =>
      /\ \A p \in ResultPaths(scan_result.node, root.path) :
             ~MatchesAPattern(p, PatternsInForce)
      /\ \A t \in TreePaths(root.entries, root.path, 0, {}) :
             (\E a \in t.above : MatchesAPattern(a, PatternsInForce))
                 => t.path \notin ResultPaths(scan_result.node, root.path)

\* a scan that returned a valid node with entries, of a root that holds a
\* matched directory with a file inside
C2_Witness ==
    /\ ScannedFromRoot
    /\ IsValidNode(scan_result.node)
    /\ ResultPaths(scan_result.node, root.path) # {}
    /\ \E t \in TreePaths(root.entries, root.path, 0, {}) :
         /\ t.depth = 1
         /\ t.kind = "file"
         /\ \E a \in t.above : MatchesAPattern(a, PatternsInForce)

\* C8: every returned mapping, and every value nested under dirs, has exactly
\* the keys {files, dirs}, {message} or {error}.
C8_ThreeShapes ==
    (Scanned /\ ~IsRaised(scan_result.node)) =>
      \A n \in NestedNodes(scan_result.node) :
          DOMAIN n \in {{"files", "dirs"}, {"message"}, {"error"}}

\* a scan in which stat() of a file raised after earlier entries of the same
\* directory had been recorded
C8_Witness ==
    /\ phase = "main_scan"
    /\ IsNone(args.file_extensions)
    /\ IsErrorLeaf(scan_result.node)
    /\ \E i \in 2..Len(root.entries) :
         /\ root.entries[i].kind = "file"
         /\ root.entries[i].fault = "vanish"
         /\ root.entries[1].kind = "file"
         /\ root.entries[1].fault = "none"

-----------------------------------------------------------------------------
\* the entries of the root that no ignore pattern matches
RootEntry(i) == root.entries[i]
RootEntryPath(i) == JoinPath(root.path, root.entries[i].name)
NotIgnored(i) == ~MatchesAPattern(RootEntryPath(i), PatternsInForce)

\* the allow-list holds the extension of the name, compared without regard to case
ExtensionAllowed(name, allowed) ==
    \E k \in 1..Len(allowed) : lower(allowed[k]) = lower(suffix(name))

FilterActive == ~IsNone(args.file_extensions) /\ Len(args.file_extensions.some) > 0

\* C3: with a non-empty allow-list E, a non-ignored regular file is recorded
\* in files exactly when its extension is in E, compared case-insensitively
\* whatever the spelling of the entries of E; no directory is skipped because
\* of E.
C3_ExtensionFilter ==
    (ScannedFromRoot /\ FilterActive /\ IsValidNode(scan_result.node)) =>
      \A i \in 1..Len(root.entries) :
        /\ (RootEntry(i).kind = "file" /\ NotIgnored(i)) =>
              (RootEntry(i).name \in Keys(scan_result.node.files)
                  <=> ExtensionAllowed(RootEntry(i).name, args.file_extensions.some))
        /\ (RootEntry(i).kind = "dir" /\ NotIgnored(i) /\ args.max_depth > 0) =>
              RootEntry(i).name \in Keys(scan_result.node.dirs)

\* the value stored under a key of an ordered mapping
Lookup(d, key) == d[CHOOSE i \in 1..Len(d) : d[i][1] = key][2]

\* C6: scan_directory never raises; a root that does not exist or is not a
\* directory yields an error record; a subdirectory whose iteration raises
\* gets an error record under its name in the parent's dirs, and the parent
\* still lists its other non-ignored files and subdirectories.
C6_NeverRaises ==
    Scanned =>
      /\ ~IsRaised(scan_result.node)
      /\ (ScannedFromRoot /\ root.kind \in {"missing", "file"})
            => IsErrorLeaf(scan_result.node)
      /\ (ScannedFromRoot /\ args.max_depth > 0 /\ root.kind = "dir"
            /\ root.fault = "none"
            /\ \E i \in 1..Len(root.entries) :
                  /\ RootEntry(i).kind = "dir"
                  /\ RootEntry(i).fault = "unreadable"
                  /\ NotIgnored(i))
            => /\ IsValidNode(scan_result.node)
               /\ \A i \in 1..Len(root.entries) :
                    /\ (RootEntry(i).kind = "dir" /\ NotIgnored(i)) =>
                          /\ RootEntry(i).name \in Keys(scan_result.node.dirs)
                          /\ RootEntry(i).fault = "unreadable" =>
                                IsErrorLeaf(Lookup(scan_result.node.dirs,
                                                   RootEntry(i).name))
                    /\ (RootEntry(i).kind = "file" /\ NotIgnored(i)
                          /\ ~ExtensionSkips(RootEntry(i).name, args.file_extensions)) =>
                          RootEntry(i).name \in Keys(scan_result.node.files)

\* C9: in a valid node, dirs holds every non-ignored subdirectory of the
\* scanned directory: a nested node within the bound, the 'max depth reached'
\* marker when the bound is hit at that subdirectory.
C9_DirsHoldEverySubdirectory ==
    (ScannedFromRoot /\ IsValidNode(scan_result.node)) =>
      \A i \in 1..Len(root.entries) :
        (RootEntry(i).kind = "dir" /\ NotIgnored(i)) =>
          /\ RootEntry(i).name \in Keys(scan_result.node.dirs)
          /\ args.max_depth = 0 =>
                IsDepthMarker(Lookup(scan_result.node.dirs, RootEntry(i).name))

-----------------------------------------------------------------------------
(* get_file_content *)

(***************************************************************************)
(* The file handed to get_file_content (environment):                      *)
(*   exists    "yes", "no", or "noaccess" (stat() fails with EACCES)       *)
(*   kind      "file" or "dir"                                             *)
(*   x_ok      os.access(path, os.X_OK)                                    *)
(*   file_cmd  what the 'file' command prints after "<path>: ", or "FAIL"  *)
(*             when running it raises                                      *)
(*   race      "none", or what happens to the file while the function      *)
(*             runs: "removed_before_stat" (after the existence check),    *)
(*             "removed_before_open" (after stat()), or "unreadable"       *)
(*             (open() is denied)                                          *)
(*   data, pad the bytes of the file: the bytes of data followed by pad    *)
(*             bytes 'a' (for a directory, pad is its st_size). A byte is  *)
(*             a one-character string, "CR", "LF",                         *)
(*             "SOH" (0x01) or "0xFF" (a byte no UTF-8 text holds).        *)
(***************************************************************************)

\* path.stat().st_size
StatSize(file) == Len(file.data) + file.pad

\* '{:.1f}' of a number of tenths
FormatTenths(t) == ToString(t \div 10) \o "." \o ToString(t % 10)

RECURSIVE UniversalNewlines(_)
\* text mode with newline=None: "\r\n" and a lone "\r" are read as "\n"
UniversalNewlines(chars) ==
    IF Len(chars) = 0 THEN <<>>
    ELSE IF chars[1] = "CR"
    THEN IF Len(chars) > 1 /\ chars[2] = "LF"
         THEN <<"LF">> \o UniversalNewlines(SubSeq(chars, 3, Len(chars)))
         ELSE <<"LF">> \o UniversalNewlines(Tail(chars))
    ELSE <<chars[1]>> \o UniversalNewlines(Tail(chars))

\* the bytes decode as UTF-8
Decodable(data) == \A i \in 1..Len(data) : data[i] # "0xFF"

\* f.read(): the text of the file, as characters followed by pad times 'a'
ReadText(file) == [text |-> UniversalNewlines(file.data), pad |-> file.pad]

\* a faulty variant, >= in place of >: C5 does not hold of it
TooLargeInclusive(size, max_size_kb) == size >= max_size_kb * KB

\* file_size_kb > max_size_kb, with file_size_kb = st_size / 1024
TooLarge(size, max_size_kb) == size > max_size_kb * KB

\* return None if not show_errors else <message>
NoneOrMessage(show_errors, message) ==
    IF show_errors THEN [message |-> message] ELSE None

\* path.exists(): "true", "false" or "raise"
PathExists(file) ==
    IF file.exists = "noaccess"
    THEN IF file.pathlib = "propagate" THEN "raise" ELSE "false"
    ELSE IF file.exists = "yes" THEN "true" ELSE "false"

\* the output of subprocess.check_output(['file', str(path)])
FileType(file, filepath) == filepath \o ": " \o file.file_cmd

\* the check for an executable binary returns its message
IsBinaryExecutable(file, filepath) ==
    /\ file.kind = "file"
    /\ file.x_ok
    /\ file.file_cmd # "FAIL"
    /\ Contains(FileType(file, filepath), "executable")
    /\ ~Contains(FileType(file, filepath), "text")

get_file_content(file, filepath, max_size_kb, show_errors) ==
    LET exists == PathExists(file)
    IN  IF exists = "raise" THEN Raised("PermissionError")
        ELSE IF exists = "false"
        THEN NoneOrMessage(show_errors, "File does not exist: " \o filepath)
        ELSE IF IsBinaryExecutable(file, filepath)
        THEN [message |-> "Binary executable file: " \o filepath \o "\nType: "
                          \o FileType(file, filepath)]
        ELSE IF file.race = "removed_before_stat"
        THEN Raised("FileNotFoundError")
        ELSE IF TooLarge(StatSize(file), max_size_kb)
        THEN NoneOrMessage(show_errors,
                 "File too large (" \o FormatTenths(RoundTenths(StatSize(file)))
                 \o " KB): " \o filepath)
        ELSE IF file.kind = "dir"
        THEN NoneOrMessage(show_errors,
                 "Error reading file " \o filepath \o ": Is a directory")
        ELSE IF file.race = "removed_before_open"
        THEN NoneOrMessage(show_errors,
                 "Error reading file " \o filepath \o ": No such file or directory")
        ELSE IF file.race = "unreadable"
        THEN NoneOrMessage(show_errors,
                 "Error reading file " \o filepath \o ": Permission denied")
        ELSE IF ~Decodable(file.data)
        THEN NoneOrMessage(show_errors,
                 "Binary file (not displayable as text): " \o filepath)
        ELSE [content |-> ReadText(file)]

-----------------------------------------------------------------------------
(* Specification of the file reader: a file is drawn, then read once *)

DefaultMaxSizeKB == 100     \* the default of max_size_kb

\* the values of max_size_kb tried
SizeLimits == (0..MaxKB) \cup {DefaultMaxSizeKB}

\* the sizes tried for a file that starts with data: the data alone, and one
\* byte under, exactly at and one byte over each limit
PadsFor(data) ==
    {0} \cup { k * KB + d - Len(data) : k \in SizeLimits \ {0}, d \in {-1, 0, 1} }

\* contents, with the execute permission and the output of 'file' they have
FileKinds ==
    { [path |-> "/proj/README.md", data |-> <<"H", "e", "l", "l", "o">>,
       x_ok |-> FALSE, file_cmd |-> "ASCII text"],
      [path |-> "/proj/run.sh", data |-> <<"#", "!", "s", "h", "LF">>, x_ok |-> TRUE,
       file_cmd |-> "POSIX shell script, ASCII text executable"],
      [path |-> "/proj/notes.txt", data |-> <<"a", "CR", "LF", "b", "CR">>, x_ok |-> FALSE,
       file_cmd |-> "ASCII text, with CRLF, CR line terminators"],
      [path |-> "/proj/Makefile", data |-> <<>>, x_ok |-> TRUE, file_cmd |-> "FAIL"],
      [path |-> "/proj/bin/tool", data |-> <<"E", "L", "F", "0xFF">>, x_ok |-> TRUE,
       file_cmd |-> "ELF 64-bit LSB executable, x86-64"],
      [path |-> "/proj/logo.png", data |-> <<"P", "N", "G", "0xFF">>, x_ok |-> FALSE,
       file_cmd |-> "PNG image data"],
      [path |-> "/proj/build.sh", data |-> <<"#", "!", "s", "h", "LF", "SOH">>, x_ok |-> TRUE,
       file_cmd |-> "POSIX shell script executable (binary data)"] }

Races == {"none", "removed_before_stat", "removed_before_open", "unreadable"}

RegularFile(k, race, pad) ==
    [path |-> k.path, exists |-> "yes", pathlib |-> "propagate", kind |-> "file",
     x_ok |-> k.x_ok, file_cmd |-> k.file_cmd, race |-> race,
     data |-> k.data, pad |-> pad]

\* a path that is no readable regular file; a directory has a size of its own
SpecialFile(path, exists, pathlib, kind) ==
    [path |-> path, exists |-> exists, pathlib |-> pathlib, kind |-> kind,
     x_ok |-> TRUE, file_cmd |-> "directory", race |-> "none", data |-> <<>>,
     pad |-> IF kind = "dir" THEN 4096 ELSE 0]

Targets ==
    UNION { {RegularFile(k, race, pad) : race \in Races, pad \in PadsFor(k.data)} :
            k \in FileKinds }
    \cup { SpecialFile("/proj/missing.txt", "no", "propagate", "file"),
           SpecialFile("/root/secret.txt", "noaccess", "propagate", "file"),
           SpecialFile("/root/secret.txt", "noaccess", "suppress", "file"),
           SpecialFile("/proj/src", "yes", "propagate", "dir") }

ReadInit ==
    /\ phase = "init"
    /\ target \in Targets
    /\ args = Idle
    /\ read_result = Idle
    /\ root = Idle
    /\ scan_result = Idle
    /\ important = Idle
    /\ description = Idle
    /\ ToolsIdle
    /\ WalkIdle

\* a call of get_file_content(filepath, max_size_kb, show_errors)
ReadFile ==
    /\ phase = "init"
    /\ \E max_size_kb \in SizeLimits, show_errors \in BOOLEAN :
         /\ args' = [max_size_kb |-> max_size_kb, show_errors |-> show_errors]
         /\ read_result' = get_file_content(target, target.path, max_size_kb, show_errors)
    /\ phase' = "read"
    /\ UNCHANGED <<root, scan_result, target, important, description,
                   tools, trace, tool_result, graph, stack, walk>>

ReadNext == ReadFile

SpecRead == ReadInit /\ [][ReadNext]_vars

HasRead == phase = "read"

StartsWith(s, head) == Len(head) <= Len(s) /\ SubSeq(s, 1, Len(head)) = head

IsMessage(v, head) == DOMAIN v = {"message"} /\ StartsWith(v.message, head)

\* the bytes of the file, in the representation of a text read from it
FileBytesAsText(file) == [text |-> file.data, pad |-> file.pad]

\* the file is there and stays as it is while it is read
StableRegularFile(file) ==
    file.exists = "yes" /\ file.kind = "file" /\ file.race = "none"

\* C4: get_file_content never raises; a missing, too large, undecodable or
\* unreadable file yields None when show_errors is false and a message when
\* it is true.
C4_ReaderNeverRaises ==
    HasRead =>
      /\ ~IsRaised(read_result)
      /\ (target.exists # "yes" \/ target.race # "none" \/ target.kind = "dir"
            \/ ~Decodable(target.data)
            \/ Len(target.data) + target.pad > args.max_size_kb * KB)
         => \/ (args.show_errors /\ DOMAIN read_result = {"message"})
            \/ (~args.show_errors /\ IsNone(read_result))
            \/ IsMessage(read_result, "Binary executable file")

CountCRLF(data) ==
    Cardinality({i \in 1..(Len(data) - 1) : data[i] = "CR" /\ data[i + 1] = "LF"})

-----------------------------------------------------------------------------
(* generate_context_description *)

(***************************************************************************)
(* The function builds the list 'description' and returns its elements     *)
(* joined by newlines. The list is kept as it is built, under the key      *)
(* text: an element is                                                     *)
(* [line |-> s] for a string the function makes, or the string returned by *)
(* get_file_content ([content |-> ...] or [message |-> ...]).              *)
(***************************************************************************)

Line(s) == [line |-> s]

\* the line of three backquotes that opens and closes a fenced block (a
\* backquote cannot be written in a string of this language)
Fence == "<three backquotes>"

UpperChar(c) ==
    IF \E i \in 1..26 : SubSeq(LowerLetters, i, i) = c
    THEN LET i == CHOOSE j \in 1..26 : SubSeq(LowerLetters, j, j) = c
         IN  SubSeq(UpperLetters, i, i)
    ELSE c

IsLetter(c) ==
    \E i \in 1..26 : SubSeq(LowerLetters, i, i) = c \/ SubSeq(UpperLetters, i, i) = c

RECURSIVE TitleFrom(_, _)
\* key.replace('_', ' ').title() from the first character of key on;
\* after_letter tells whether the character before was a letter
TitleFrom(key, after_letter) ==
    IF Len(key) = 0 THEN ""
    ELSE LET c == IF SubSeq(key, 1, 1) = "_" THEN " " ELSE SubSeq(key, 1, 1)
         IN  (IF after_letter THEN LowerChar(c) ELSE UpperChar(c))
             \o TitleFrom(SubSeq(key, 2, Len(key)), IsLetter(c))

\* the lines of the system information section
SystemInfoLines(system_info) ==
    [i \in 1..Len(system_info) |->
        IF system_info[i][1] = "neofetch"
        THEN Line("\n### Neofetch Output\n" \o Fence \o "\n" \o system_info[i][2]
                  \o "\n" \o Fence)
        ELSE Line("- **" \o TitleFrom(system_info[i][1], FALSE) \o "**: "
                  \o system_info[i][2])]

RECURSIVE basename(_)
\* os.path.basename: what follows the last "/"
basename(path) ==
    IF Len(path) = 0 THEN ""
    ELSE IF SubSeq(path, Len(path), Len(path)) = "/" THEN ""
    ELSE basename(SubSeq(path, 1, Len(path) - 1)) \o SubSeq(path, Len(path), Len(path))

\* 'if file_content:' for a value returned by get_file_content
Truthy(file_content) ==
    \/ DOMAIN file_content = {"message"}
    \/ /\ DOMAIN file_content = {"content"}
       /\ Len(file_content.content.text) + file_content.content.pad > 0

\* get_file_content(file_path) as the loop over important_files calls it,
\* max_size_kb and show_errors left to their defaults
ImportantFileContent(file, file_path) ==
    get_file_content(file, file_path, DefaultMaxSizeKB, TRUE)

RECURSIVE ImportantFileParts(_, _, _)
\* the loop over important_files.items() from its i-th item on, parts being
\* what the loop appended so far; an item is [label, file], the file with
\* its path. The value is [parts |-> ...], or the exception that ends the loop
ImportantFileParts(important_files, i, parts) ==
    IF i > Len(important_files) THEN [parts |-> parts]
    ELSE LET label == important_files[i].label
             file == important_files[i].file
             file_content == ImportantFileContent(file, file.path)
         IN  IF IsRaised(file_content) THEN file_content
             ELSE IF Truthy(file_content)
             THEN ImportantFileParts(important_files, i + 1,
                      parts \o << Line("\n### " \o basename(file.path)
                                       \o " (" \o label \o ")"),
                                  Line(Fence),
                                  file_content,
                                  Line(Fence) >>)
             ELSE ImportantFileParts(important_files, i + 1, parts)

\* a faulty variant, one space in place of two: C10 does not hold of it
ChildPrefixOneSpace(prefix) == prefix \o " "

\* prefix + "  "
ChildPrefix(prefix) == prefix \o "  "

\* dir_info.get(key, {})
GetOrEmpty(dir_info, key) == IF key \in DOMAIN dir_info THEN dir_info[key] ELSE <<>>

RECURSIVE format_dir_structure(_, _)
RECURSIVE FormatDirs(_, _, _)

\* the loop over dir_info.get("dirs", {}).items() from its i-th item on
FormatDirs(dirs, i, prefix) ==
    IF i > Len(dirs) THEN <<>>
    ELSE << Line(prefix \o "- " \o dirs[i][1] \o "/ (directory)") >>
         \o format_dir_structure(dirs[i][2], ChildPrefix(prefix))
         \o FormatDirs(dirs, i + 1, prefix)

format_dir_structure(dir_info, prefix) ==
    LET files == GetOrEmpty(dir_info, "files")
    IN  [i \in 1..Len(files) |->
            Line(prefix \o "- " \o files[i][1] \o " ("
                 \o FormatTenths(files[i][2].size_kb) \o " KB)")]
        \o FormatDirs(GetOrEmpty(dir_info, "dirs"), 1, prefix)

\* the list 'description' as [text |-> ...], or the exception that leaves
\* the function; project_path and dir_scan are optional values
generate_context_description(project_path, system_info, dir_scan, important_files) ==
    LET head == << Line("# System and Project Context"), Line("\n## System Information") >>
                \o SystemInfoLines(system_info)
        overview == IF ~IsNone(project_path) /\ Len(project_path.some) > 0
                    THEN << Line("\n## Project Overview"),
                            Line("- **Project Path**: " \o project_path.some) >>
                    ELSE <<>>
        configs == IF Len(important_files) > 0
                   THEN ImportantFileParts(important_files, 1,
                                           << Line("\n## Configuration Files") >>)
                   ELSE [parts |-> <<>>]
        structure == IF ~IsNone(project_path) /\ Len(project_path.some) > 0
                        /\ ~IsNone(dir_scan)
                     THEN << Line("\n## Project Structure") >>
                          \o format_dir_structure(dir_scan.some, "")
                     ELSE <<>>
    IN  IF IsRaised(configs) THEN configs
        ELSE [text |-> head \o overview \o configs.parts \o structure]

-----------------------------------------------------------------------------
(* Specification of the assembler: a tree and the important files are      *)
(* drawn, then main() builds the text document once                        *)

\* the file kind stored under a path
KindAt(path) == CHOOSE k \in FileKinds : k.path = path

\* important files: a label and the file, as it is when the assembler reads it
ImportantMenu ==
    { [label |-> "readme", file |-> RegularFile(KindAt("/proj/README.md"), "none", 0)],
      [label |-> "notes",
       file  |-> RegularFile(KindAt("/proj/notes.txt"), "none",
                             DefaultMaxSizeKB * KB + 1 - 5)],
      [label |-> "logo", file |-> RegularFile(KindAt("/proj/logo.png"), "none", 0)],
      [label |-> "makefile", file |-> RegularFile(KindAt("/proj/Makefile"), "none", 0)],
      [label |-> "run", file |-> RegularFile(KindAt("/proj/run.sh"), "removed_before_stat", 0)],
      [label |-> "tool", file |-> RegularFile(KindAt("/proj/bin/tool"), "none", 0)],
      [label |-> "missing",
       file  |-> SpecialFile("/proj/missing.txt", "no", "propagate", "file")] }

Readme == CHOOSE m \in ImportantMenu : m.label = "readme"

ImportantChoices ==
    {<<>>} \cup {<<m>> : m \in ImportantMenu}
    \cup {<<Readme, m>> : m \in ImportantMenu \ {Readme}}
    \cup {<<m, Readme>> : m \in ImportantMenu \ {Readme}}

\* the system_info mappings tried ({} with --no-system)
SystemInfos ==
    { <<>>,
      << <<"os", "Arch Linux">>, <<"window_manager", "i3">>, <<"neofetch", "OS: Arch">> >> }

GenRoots ==
    {RootDir("/proj", l) : l \in Listings(TreeDepth - 1)}
    \cup {RootOf("/nowhere", "missing", "none", "propagate")}

GenInit ==
    /\ phase = "init"
    /\ root \in GenRoots
    /\ important \in ImportantChoices
    /\ args = Idle
    /\ scan_result = Idle
    /\ target = Idle
    /\ read_result = Idle
    /\ description = Idle
    /\ ToolsIdle
    /\ WalkIdle

\* main() in text mode with a project path: the scan, then the document
MainText ==
    /\ phase = "init"
    /\ \E max_depth \in 0..MaxM, system_info \in SystemInfos :
         LET scan == scan_rec(root, root.path, max_depth, 0, None, None)
         IN  /\ args' = [project_path |-> Some(root.path), max_depth |-> max_depth,
                         system_info |-> system_info]
             /\ scan_result' = scan
             /\ description' = generate_context_description(
                                   Some(root.path), system_info, Some(scan.node), important)
    /\ phase' = "main_text"
    /\ UNCHANGED <<root, target, read_result, important,
                   tools, trace, tool_result, graph, stack, walk>>

\* main() in text mode without a project path: no scan
MainTextNoProject ==
    /\ phase = "init"
    /\ \E system_info \in SystemInfos :
         /\ args' = [project_path |-> None, max_depth |-> 0, system_info |-> system_info]
         /\ description' = generate_context_description(None, system_info, None, important)
    /\ scan_result' = Idle
    /\ phase' = "main_text_no_project"
    /\ UNCHANGED <<root, target, read_result, important,
                   tools, trace, tool_result, graph, stack, walk>>

GenNext == MainText \/ MainTextNoProject

SpecGen == GenInit /\ [][GenNext]_vars

Generated == phase \in {"main_text", "main_text_no_project"}

-----------------------------------------------------------------------------
\* the heading the assembler gives an important file
HeadingOf(m) == [line |-> "\n### " \o basename(m.file.path) \o " (" \o m.label \o ")"]

\* the file yields no content: it is missing, over the default size limit or
\* not decodable as text
YieldsNoContent(file) ==
    \/ file.exists # "yes"
    \/ Len(file.data) + file.pad > DefaultMaxSizeKB * KB
    \/ ~Decodable(file.data)

\* C7: an important file that yields no content is omitted entirely (no
\* heading, no fenced block, no diagnostic text); one that holds text under
\* the size limit appears as its heading followed by a fenced block holding
\* exactly its content.
C7_NoContentOmitted ==
    (Generated /\ ~IsRaised(description)) =>
      \A i \in 1..Len(important) :
        LET m == important[i]
        IN  /\ (StableRegularFile(m.file) \/ m.file.exists # "yes") =>
              IF YieldsNoContent(m.file)
              THEN \A j \in 1..Len(description.text) :
                      /\ description.text[j] # HeadingOf(m)
                      /\ DOMAIN description.text[j] # {"message"}
              ELSE Len(m.file.data) + m.file.pad > 0 =>
                     \E j \in 1..(Len(description.text) - 3) :
                       /\ description.text[j] = HeadingOf(m)
                       /\ description.text[j + 1] = [line |-> Fence]
                       /\ description.text[j + 2] = [content |-> FileBytesAsText(m.file)]
                       /\ description.text[j + 3] = [line |-> Fence]

-----------------------------------------------------------------------------
\* the lines of the project-structure section: what follows its heading
StructureLines ==
    LET at == {j \in 1..Len(description.text) :
                  description.text[j] = [line |-> "\n## Project Structure"]}
    IN  IF at = {} THEN <<>>
        ELSE LET j == CHOOSE k \in at : TRUE
             IN  [k \in 1..(Len(description.text) - j) |-> description.text[j + k].line]

RECURSIVE CountEntries(_)
\* the files and directories of a node, at every nesting level
CountEntries(node) ==
    IF ~IsValidNode(node) THEN 0
    ELSE LET Sub[i \in 0..Len(node.dirs)] ==
                 IF i = 0 THEN 0 ELSE Sub[i - 1] + 1 + CountEntries(node.dirs[i][2])
         IN  Len(node.files) + Sub[Len(node.dirs)]

\* the number of spaces a line starts with
Indent(s) ==
    LET blank == {i \in 0..Len(s) : \A j \in 1..i : SubSeq(s, j, j) = " "}
    IN  CHOOSE i \in blank : \A j \in blank : j <= i

EndsWith(s, tail) ==
    Len(tail) <= Len(s) /\ SubSeq(s, Len(s) - Len(tail) + 1, Len(s)) = tail

\* the line, after level * 2 spaces, names the entry
NamesEntry(s, level, name) ==
    /\ Indent(s) = 2 * level
    /\ StartsWith(SubSeq(s, 2 * level + 1, Len(s)), "- " \o name)

RECURSIVE IsPreOrderRendering(_, _, _)
\* lines is the rendering of node at nesting level `level`: its files in
\* mapping order, then each subdirectory in mapping order, its line directly
\* followed by the rendering of its own contents one level deeper
IsPreOrderRendering(node, lines, level) ==
    IF ~IsValidNode(node) THEN lines = <<>>
    ELSE
      LET files == node.files
          dirs == node.dirs
          \* the index of the line of the i-th subdirectory
          At[i \in 1..(Len(dirs) + 1)] ==
              IF i = 1 THEN Len(files) + 1
              ELSE At[i - 1] + 1 + CountEntries(dirs[i - 1][2])
      IN  /\ Len(lines) = CountEntries(node)
          /\ \A i \in 1..Len(files) :
                /\ NamesEntry(lines[i], level, files[i][1] \o " (")
                /\ ~EndsWith(lines[i], "/ (directory)")
          /\ \A i \in 1..Len(dirs) :
                /\ NamesEntry(lines[At[i]], level, dirs[i][1] \o "/ (directory)")
                /\ IsPreOrderRendering(dirs[i][2],
                                       SubSeq(lines, At[i] + 1, At[i + 1] - 1),
                                       level + 1)

\* C10: the project-structure section is the depth-first pre-order rendering
\* of the scan: per node the files, then each subdirectory line (with the
\* directory marker) directly followed by its own contents, a line of nesting
\* level n being indented by exactly 2*n spaces; nothing is dropped or
\* reordered.
C10_PreOrderRendering ==
    (phase = "main_text" /\ ~IsRaised(description)) =>
      IsPreOrderRendering(scan_result.node, StructureLines, 0)

\* a document whose structure section shows a file two levels below the root
C10_Witness ==
    /\ phase = "main_text"
    /\ ~IsRaised(description)
    /\ \E i \in 1..Len(StructureLines) :
         /\ Indent(StructureLines[i]) = 4
         /\ ~EndsWith(StructureLines[i], "/ (directory)")

-----------------------------------------------------------------------------
(* External commands: availability checks and launches                     *)
(*                                                                         *)
(* Every operation below returns, next to its value, the events it caused  *)
(* in order: "which" for check_dependency(command), "exec" for a launch    *)
(* through subprocess.                                                     *)

\* the external commands the program names
Commands ==
    {"xclip", "uname", "hostname", "setxkbmap", "neofetch", "pacman", "file", "xmodmap"}

\* a command is not on PATH, runs and exits with 0, or runs and exits with non-zero
CommandStates == {"absent", "ok", "fails"}

WhichEvent(command) == [op |-> "which", command |-> command]
ExecEvent(command) == [op |-> "exec", command |-> command]

\* what each command writes to its standard output
Output(command) ==
    CASE command = "uname" -> "6.6.1-arch1-1"
      [] command = "hostname" -> "archbox"
      [] command = "setxkbmap" -> "layout:     us"
      [] command = "neofetch" -> "OS: Arch Linux x86_64"
      [] OTHER -> ""

\* shutil.which(command) is not None
check_dependency(env, command) == env[command] # "absent"

\* subprocess.check_output([command, ...]): the launch is attempted whatever the
\* state of the command; a missing command and a non-zero exit both raise
check_output(env, command) ==
    [events |-> <<ExecEvent(command)>>,
     value  |-> CASE env[command] = "ok" -> [output |-> Output(command)]
                  [] env[command] = "absent" -> Raised("FileNotFoundError")
                  [] OTHER -> Raised("CalledProcessError")]

copy_to_clipboard(env, text) ==
    IF ~check_dependency(env, "xclip")
    THEN [value |-> FALSE, events |-> <<WhichEvent("xclip")>>,
          printed |-> <<"Warning: xclip not found, cannot copy to clipboard. Install with 'pacman -S xclip'">>]
    ELSE [value |-> (env["xclip"] = "ok"),
          events |-> <<WhichEvent("xclip"), ExecEvent("xclip")>>,
          printed |-> <<>>]

\* try: system_info[key] = check_output(...) except: system_info[key] = 'Unknown'
SetOrUnknown(system_info, key, run) ==
    DictSet(system_info, key,
            IF IsRaised(run.value) THEN "Unknown" ELSE run.value.output)

\* if check_dependency(command): try: system_info[key] = check_output(...) except: pass
SetIfAvailable(acc, env, command, key) ==
    IF ~check_dependency(env, command)
    THEN [system_info |-> acc.system_info,
          events |-> Append(acc.events, WhichEvent(command))]
    ELSE LET run == check_output(env, command)
         IN  [system_info |-> IF IsRaised(run.value) THEN acc.system_info
                              ELSE DictSet(acc.system_info, key, run.value.output),
              events |-> Append(acc.events, WhichEvent(command)) \o run.events]

\* the values read from /etc/os-release, the process environment, the password
\* database, /proc/meminfo and /proc/cpuinfo are those of one fixed machine
get_system_info(env) ==
    LET uname    == check_output(env, "uname")
        hostname == check_output(env, "hostname")
        s1 == DictSet(<<>>, "os", "Arch Linux")
        s2 == SetOrUnknown(s1, "kernel", uname)
        s3 == DictSet(DictSet(s2, "shell", "/bin/bash"), "user", "user")
        s4 == SetOrUnknown(s3, "hostname", hostname)
        s5 == DictSet(DictSet(s4, "desktop", "Unknown"), "window_manager", "i3")
        a5 == [system_info |-> s5, events |-> uname.events \o hostname.events]
        a6 == SetIfAvailable(a5, env, "setxkbmap", "keyboard_layout")
        a7 == SetIfAvailable(a6, env, "neofetch", "neofetch")
        a8 == SetIfAvailable(a7, env, "pacman", "package_count")
        s9 == DictSet(DictSet(a8.system_info, "memory", "15872 MB"), "cpu", "AMD Ryzen 5")
    IN  [value |-> s9, events |-> a8.events]

\* the file as get_file_content meets it on a machine with these commands: the
\* launch of 'file' raises unless the command runs and exits with 0
SeenWith(env, file) ==
    [file EXCEPT !.file_cmd = IF env["file"] = "ok" THEN @ ELSE "FAIL"]

\* the events of get_file_content: the check for an executable binary
FileContentEvents(file) ==
    IF PathExists(file) = "true" /\ file.kind = "file" /\ file.x_ok
    THEN <<ExecEvent("file")>>
    ELSE <<>>

\* the lines of xmodmap -pke, with line.split('=')[0].strip() of each
XmodmapLines ==
    << [key_name |-> "keycode  10", line |-> "keycode  10 = 1 exclam 1 exclam"],
       [key_name |-> "keycode  38", line |-> "keycode  38 = a A a A"] >>

\* the characters that need shift
ShiftChars == "~!@#$%^&*()_+{}|:<>?"

XmodmapNotFound == "xmodmap not found. Install with 'pacman -S xorg-xmodmap'."

\* str(e) of the exception raised by check_output(['xmodmap', '-pke'])
XmodmapError == "Command '['xmodmap', '-pke']' returned non-zero exit status 1."

\* the value is the heading of the table; its rows are not modelled
get_keyboard_special_chars(env) ==
    IF ~check_dependency(env, "xmodmap")
    THEN [value |-> XmodmapNotFound, events |-> <<WhichEvent("xmodmap")>>]
    ELSE [value |-> IF env["xmodmap"] = "ok"
                    THEN "## Special Character Key Combinations\n\n"
                    ELSE "Error getting keyboard mapping: " \o XmodmapError,
          events |-> <<WhichEvent("xmodmap"), ExecEvent("xmodmap")>>]

\* the first line of the mapping that holds the character between spaces
FindChar(char, i) ==
    CHOOSE j \in i..Len(XmodmapLines) + 1 :
        /\ j <= Len(XmodmapLines) => Contains(XmodmapLines[j].line, " " \o char \o " ")
        /\ \A k \in i..(j - 1) : ~Contains(XmodmapLines[k].line, " " \o char \o " ")

lookup_key_for_char(env, char) ==
    IF char = ""
    THEN [value |-> "No character specified.", events |-> <<>>]
    ELSE IF ~check_dependency(env, "xmodmap")
    THEN [value |-> XmodmapNotFound, events |-> <<WhichEvent("xmodmap")>>]
    ELSE [value |->
            IF env["xmodmap"] # "ok"
            THEN "Error looking up character: " \o XmodmapError
            ELSE LET j == FindChar(char, 1)
                 IN  IF j > Len(XmodmapLines)
                     THEN "Character '" \o char \o "' not found in keyboard mapping."
                     ELSE "To type '" \o char \o "': Press "
                          \o (IF Contains(ShiftChars, char) THEN "Shift + " ELSE "")
                          \o XmodmapLines[j].key_name,
          events |-> <<WhichEvent("xmodmap"), ExecEvent("xmodmap")>>]

-----------------------------------------------------------------------------
(* Specification of the operations that use external commands: a machine   *)
(* and a file are drawn, then one operation is applied                     *)

\* the files handed to get_file_content here
ToolTargets ==
    { RegularFile(k, "none", 0) :
        k \in {f \in FileKinds : f.path \in {"/proj/README.md", "/proj/run.sh", "/proj/bin/tool"}} }
    \cup { SpecialFile("/proj/missing.txt", "no", "propagate", "file") }

ToolsInit ==
    /\ phase = "init"
    /\ tools \in [Commands -> CommandStates]
    /\ target \in ToolTargets
    /\ trace = <<>>
    /\ tool_result = Idle
    /\ args = Idle
    /\ root = Idle
    /\ scan_result = Idle
    /\ read_result = Idle
    /\ important = Idle
    /\ description = Idle
    /\ WalkIdle

\* main(): copy_to_clipboard(context) with --copy
CopyToClipboard ==
    /\ phase = "init"
    /\ \E text \in {"", "# System and Project Context"} :
         /\ args' = [text |-> text]
         /\ tool_result' = [value |-> copy_to_clipboard(tools, text).value]
         /\ trace' = copy_to_clipboard(tools, text).events
    /\ phase' = "copy_to_clipboard"
    /\ UNCHANGED <<root, scan_result, target, read_result, important, description,
                   tools, graph, stack, walk>>

\* main(): get_system_info() unless --no-system
GetSystemInfo ==
    /\ phase = "init"
    /\ args' = Idle
    /\ tool_result' = [value |-> get_system_info(tools).value]
    /\ trace' = get_system_info(tools).events
    /\ phase' = "get_system_info"
    /\ UNCHANGED <<root, scan_result, target, read_result, important, description,
                   tools, graph, stack, walk>>

\* get_file_content(filepath, show_errors) on this machine
ReadWithTools ==
    /\ phase = "init"
    /\ \E show_errors \in BOOLEAN :
         /\ args' = [max_size_kb |-> DefaultMaxSizeKB, show_errors |-> show_errors]
         /\ tool_result' = get_file_content(SeenWith(tools, target), target.path,
                                            DefaultMaxSizeKB, show_errors)
    /\ trace' = FileContentEvents(target)
    /\ phase' = "get_file_content"
    /\ UNCHANGED <<root, scan_result, target, read_result, important, description,
                   tools, graph, stack, walk>>

\* main(): get_keyboard_special_chars() with --keyboard-chars
KeyboardChars ==
    /\ phase = "init"
    /\ args' = Idle
    /\ tool_result' = [value |-> get_keyboard_special_chars(tools).value]
    /\ trace' = get_keyboard_special_chars(tools).events
    /\ phase' = "get_keyboard_special_chars"
    /\ UNCHANGED <<root, scan_result, target, read_result, important, description,
                   tools, graph, stack, walk>>

\* main(): lookup_key_for_char(args.find_char) with --find-char
LookupKey ==
    /\ phase = "init"
    /\ \E char \in {"", "a", "A", "!"} :
         /\ args' = [char |-> char]
         /\ tool_result' = [value |-> lookup_key_for_char(tools, char).value]
         /\ trace' = lookup_key_for_char(tools, char).events
    /\ phase' = "lookup_key_for_char"
    /\ UNCHANGED <<root, scan_result, target, read_result, important, description,
                   tools, graph, stack, walk>>

ToolsNext ==
    CopyToClipboard \/ GetSystemInfo \/ ReadWithTools \/ KeyboardChars \/ LookupKey

SpecTools == ToolsInit /\ [][ToolsNext]_vars

\* an operation on external commands has been applied
ToolsUsed ==
    phase \in {"copy_to_clipboard", "get_system_info", "get_file_content",
               "get_keyboard_special_chars", "lookup_key_for_char"}

\* the command of this launch was checked for earlier in the same call
CheckedBefore(i) ==
    \E j \in 1..(i - 1) : trace[j] = WhichEvent(trace[i].command)

\* C11: no external command is attempted blindly: in every operation, each
\* launch of a command is preceded by an availability check of that command,
\* and a command that is absent is never launched
C11_NoBlindLaunch ==
    ToolsUsed =>
        \A i \in 1..Len(trace) :
            trace[i].op = "exec" =>
                /\ CheckedBefore(i)
                /\ tools[trace[i].command] # "absent"

-----------------------------------------------------------------------------
(* scan_directory step by step on a directory graph                        *)
(*                                                                         *)
(* A directory is a node; an entry of a listing names a file or leads to a *)
(* node, and a symbolic link may lead to any node, an ancestor included.   *)
(* is_file() and is_dir() follow symbolic links. The frames of the calls   *)
(* in progress are kept on a stack; a frame holds the directory, its path, *)
(* current_depth and the position i in the loop over path.iterdir(), with  *)
(* i = 0 before the checks of lines 154 and 164. The values returned are   *)
(* those of scan_rec and are not built again here.                         *)

FileEntry(name) == [name |-> name, kind |-> "file", node |-> 0, symlink |-> FALSE]
DirEntry(name, node) == [name |-> name, kind |-> "dir", node |-> node, symlink |-> FALSE]
LinkEntry(name, node) == [name |-> name, kind |-> "dir", node |-> node, symlink |-> TRUE]

Node(fault, entries) ==
    [kind |-> "dir", fault |-> fault, pathlib |-> "propagate", entries |-> entries]

\* the directory graphs walked; node 1 is the directory handed to the first call
Graphs ==
    { \* a tree without links
      <<Node("none", <<FileEntry("a.py"), DirEntry("sub", 2)>>),
        Node("none", <<FileEntry("b.py"), DirEntry("more", 3)>>),
        Node("none", <<FileEntry("c.py")>>)>>,
      \* a link in the root that leads to the root
      <<Node("none", <<FileEntry("a.py"), LinkEntry("loop", 1)>>)>>,
      \* links that lead back to the parent, to the root and to the directory itself
      <<Node("none", <<DirEntry("sub", 2), FileEntry("a.py")>>),
        Node("none", <<LinkEntry("up", 1), DirEntry("more", 3)>>),
        Node("none", <<LinkEntry("top", 1), LinkEntry("here", 3)>>)>>,
      \* a cycle through an ignored name, and a cycle through a directory that
      \* cannot be listed or is removed before it is entered
      <<Node("none", <<LinkEntry("node_modules", 1), DirEntry("sub", 2),
                       DirEntry("locked", 3), DirEntry("gone", 4)>>),
        Node("none", <<LinkEntry("back", 1)>>),
        Node("unreadable", <<LinkEntry("back", 1)>>),
        Node("vanish", <<LinkEntry("back", 1)>>)>>,
      \* two directories that hold a link to each other
      <<Node("none", <<DirEntry("docs", 2), DirEntry("src", 3)>>),
        Node("none", <<FileEntry("index.md"), LinkEntry("code", 3)>>),
        Node("none", <<LinkEntry("manual", 2), FileEntry("main.py")>>)>> }

GraphRootPath == "/proj"

Frame(node, dir_path, current_depth) ==
    [node |-> node, dir_path |-> dir_path, current_depth |-> current_depth, i |-> 0]

Top == stack[Len(stack)]
TopNode == graph[Top.node]
TopItem == TopNode.entries[Top.i]

\* the frame is inside the loop, at an entry of the listing
AtItem ==
    /\ phase = "walking"
    /\ Top.i >= 1
    /\ TopNode.fault = "none"
    /\ Top.i <= Len(TopNode.entries)

\* the call of the top frame returns; its caller goes on with the next entry
ReturnToCaller ==
    /\ stack' = IF Len(stack) = 1 THEN <<>>
                ELSE [SubSeq(stack, 1, Len(stack) - 1) EXCEPT ![Len(stack) - 1].i = @ + 1]
    /\ phase' = IF Len(stack) = 1 THEN "returned" ELSE "walking"
    /\ UNCHANGED <<args, graph, walk>>

WalkIdleRest ==
    UNCHANGED <<root, scan_result, target, read_result, important, description,
                tools, trace, tool_result>>

WalkInit ==
    /\ phase = "init"
    /\ graph \in Graphs
    /\ stack = <<>>
    /\ walk = [calls |-> 0, deepest |-> 0, revisits |-> 0]
    /\ args = Idle
    /\ root = Idle
    /\ scan_result = Idle
    /\ target = Idle
    /\ read_result = Idle
    /\ important = Idle
    /\ description = Idle
    /\ ToolsIdle

\* scan_directory(dir_path, max_depth) is called with current_depth = 0
WalkCall ==
    /\ phase = "init"
    /\ \E max_depth \in -2..MaxM :
         args' = [max_depth |-> max_depth, current_depth |-> 0,
                  ignore_patterns |-> None, file_extensions |-> None]
    /\ stack' = <<Frame(1, GraphRootPath, 0)>>
    /\ walk' = [calls |-> 1, deepest |-> 1, revisits |-> 0]
    /\ phase' = "walking"
    /\ UNCHANGED graph
    /\ WalkIdleRest

\* if current_depth > max_depth: return the marker
WalkReturnMarker ==
    /\ phase = "walking"
    /\ Top.i = 0
    /\ Top.current_depth > args.max_depth
    /\ ReturnToCaller
    /\ WalkIdleRest

\* if not path.exists() or not path.is_dir(): return the error record
WalkReturnNotADirectory ==
    /\ phase = "walking"
    /\ Top.i = 0
    /\ ~(Top.current_depth > args.max_depth)
    /\ IsExistingDir(TopNode) # "true"
    /\ ReturnToCaller
    /\ WalkIdleRest

\* the checks pass and the try block is entered
WalkEnterLoop ==
    /\ phase = "walking"
    /\ Top.i = 0
    /\ ~(Top.current_depth > args.max_depth)
    /\ IsExistingDir(TopNode) = "true"
    /\ stack' = [stack EXCEPT ![Len(stack)].i = 1]
    /\ UNCHANGED <<phase, args, graph, walk>>
    /\ WalkIdleRest

\* path.iterdir() raises: the except clause returns the error record
WalkLoopRaises ==
    /\ phase = "walking"
    /\ Top.i >= 1
    /\ TopNode.fault = "unreadable"
    /\ ReturnToCaller
    /\ WalkIdleRest

\* continue: the entry matches an ignore pattern, or it is a directory and
\* current_depth < max_depth does not hold
WalkContinue ==
    /\ AtItem
    /\ \/ Ignored(JoinPath(Top.dir_path, TopItem.name), DefaultIgnorePatterns)
       \/ /\ TopItem.kind = "dir"
          /\ ~Descend(TRUE, Top.current_depth, args.max_depth)
    /\ stack' = [stack EXCEPT ![Len(stack)].i = @ + 1]
    /\ UNCHANGED <<phase, args, graph, walk>>
    /\ WalkIdleRest

\* item.is_file(): the file is recorded
WalkFile ==
    /\ AtItem
    /\ ~Ignored(JoinPath(Top.dir_path, TopItem.name), DefaultIgnorePatterns)
    /\ TopItem.kind = "file"
    /\ stack' = [stack EXCEPT ![Len(stack)].i = @ + 1]
    /\ UNCHANGED <<phase, args, graph, walk>>
    /\ WalkIdleRest

\* item.is_dir() and current_depth < max_depth: the recursive call
WalkRecurse ==
    /\ AtItem
    /\ ~Ignored(JoinPath(Top.dir_path, TopItem.name), DefaultIgnorePatterns)
    /\ TopItem.kind = "dir"
    /\ Descend(TRUE, Top.current_depth, args.max_depth)
    /\ stack' = Append(stack, Frame(TopItem.node, JoinPath(Top.dir_path, TopItem.name),
                                    Top.current_depth + 1))
    /\ walk' = [calls |-> walk.calls + 1,
                deepest |-> IF Len(stack) + 1 > walk.deepest THEN Len(stack) + 1
                            ELSE walk.deepest,
                revisits |-> IF \E k \in 1..Len(stack) : stack[k].node = TopItem.node
                             THEN walk.revisits + 1 ELSE walk.revisits]
    /\ UNCHANGED <<phase, args, graph>>
    /\ WalkIdleRest

\* the loop is over: return dir_info
WalkReturn ==
    /\ phase = "walking"
    /\ Top.i >= 1
    /\ TopNode.fault = "none"
    /\ Top.i > Len(TopNode.entries)
    /\ ReturnToCaller
    /\ WalkIdleRest

\* a step of the call in progress
WalkStep ==
    \/ WalkReturnMarker
    \/ WalkReturnNotADirectory
    \/ WalkEnterLoop
    \/ WalkLoopRaises
    \/ WalkContinue
    \/ WalkFile
    \/ WalkRecurse
    \/ WalkReturn

WalkNext == WalkCall \/ WalkStep

\* the interpreter runs a call in progress to its end: nothing else is scheduled
SpecWalk == WalkInit /\ [][WalkNext]_vars /\ WF_vars(WalkStep)

Walking == phase = "walking"
Returned == phase = "returned"

\* C12 as stated, the nesting clause for every integer max_depth: the calls in
\* progress never exceed max_depth + 1 levels
C12_NestingAsStated ==
    (Walking \/ Returned) => walk.deepest <= args.max_depth + 1

\* the number of levels allowed: max_depth + 1, and the first call alone when
\* max_depth is negative
LevelsAllowed == IF args.max_depth >= 0 THEN args.max_depth + 1 ELSE 1

\* C12: scan_directory terminates on every finite directory graph, links back
\* to an ancestor included, and every integer max_depth: the frames of the
\* calls in progress always hold current_depth = 0, 1, 2, ... in order and
\* never exceed max_depth + 1 levels when max_depth >= 0, the first call
\* returns without a recursive call when max_depth < 0, and a call that has
\* started always returns
C12_TerminatesWithinDepth ==
    /\ [](Walking =>
            /\ Len(stack) <= LevelsAllowed
            /\ \A k \in 1..Len(stack) : stack[k].current_depth = k - 1)
    /\ [](Returned => walk.deepest <= LevelsAllowed)
    /\ (Walking ~> Returned)

\* a walk has returned that went through a link back to a directory still
\* being scanned and reached max_depth + 1 levels, with max_depth at least 2
C12_Witness ==
    /\ Returned
    /\ args.max_depth >= 2
    /\ walk.revisits > 0
    /\ walk.deepest = args.max_depth + 1
    /\ \E n \in 1..Len(graph) : \E e \in 1..Len(graph[n].entries) :
          graph[n].entries[e].symlink

====
